---- MODULE Spec2Model ----
(***************************************************************************)
(* Flow B of the repository: the Streamlit surface (src/app.py) running    *)
(* analyze_stock_simple (src/simple_stock_analysis.py), which calls        *)
(* get_stock_data, search_stock_news and the hosted model in sequence.     *)
(*                                                                         *)
(* Text is modelled as a sequence of string tokens.  A ticker symbol is a  *)
(* sequence of one-character tokens, so suffix tests and concatenation are *)
(* computed on characters; template literals are whole tokens.             *)
(***************************************************************************)
EXTENDS Integers, Sequences, FiniteSets, TLC

VARIABLES
    pc,              \* position of the single thread of control
    env,             \* os.environ['GOOGLE_API_KEY']: <<>> when absent, else <<key>>
    api_key,         \* app.py: the sidebar's key field
    stock_symbol,    \* app.py / analyze_stock_simple: the symbol analysed
    ui,              \* app.py: the widgets rendered by the current script run
    calls,           \* the external calls made by the current run, in order:
                     \* << operation, argument, how it ended >>
    ticker_symbol,   \* try_fetch_stock: the symbol of the lookup in progress
    reply,           \* what the market-data source answered to the last lookup
    result,          \* get_stock_data: `result`: [dict, text], the dict when
                     \* success, the error text otherwise
    success,         \* get_stock_data: `success`
    gsd_outcome,     \* how get_stock_data left: "none", "block", "error", "raise"
    stock_data,      \* analyze_stock_simple: the text get_stock_data returned
    company_name,    \* analyze_stock_simple: company_name
    query_index,     \* search_stock_news: index of the next query of the loop
    outcomes,        \* search_stock_news: how each query issued so far ended
                     \* and how many results the source returned for it
    search_reply,    \* what the search source answered to the last query
    all_news,        \* search_stock_news: all_news
    news_data,       \* analyze_stock_simple: the text search_stock_news returned
    analysis_prompt, \* analyze_stock_simple: analysis_prompt
    llm,             \* what the hosted model answered to the invocation
    analysis_result, \* analyze_stock_simple: its return value
    crew             \* FinancialCompanionCrew.process_customer_data: the call
                     \* in progress, the tasks the runner has completed and
                     \* what the call returned

vars == << pc, env, api_key, stock_symbol, ui, calls, ticker_symbol, reply,
           result, success, gsd_outcome, stock_data, company_name, query_index,
           outcomes, search_reply, all_news, news_data, analysis_prompt, llm,
           analysis_result, crew >>

-----------------------------------------------------------------------------
(* Bounds of the model *)

\* longest daily-close history the market-data source answers with
MaxHistLen == 253

\* most results the search source has on offer for one query
MaxAvail == 4

-----------------------------------------------------------------------------
(* Text helpers *)

NA == << "N/A" >>

RECURSIVE Flatten(_)
Flatten(parts) ==
    IF parts = << >> THEN << >> ELSE Head(parts) \o Flatten(Tail(parts))

Take(s, n) == SubSeq(s, 1, IF Len(s) < n THEN Len(s) ELSE n)

EndsWith(s, suffix) ==
    /\ Len(s) >= Len(suffix)
    /\ SubSeq(s, Len(s) - Len(suffix) + 1, Len(s)) = suffix

Contains(text, tokens) == \E i \in 1..Len(text) : text[i] \in tokens

\* index of the first occurrence of token in text, 0 when there is none
IndexOf(text, token) ==
    IF \E i \in 1..Len(text) : text[i] = token
    THEN CHOOSE i \in 1..Len(text) :
            /\ text[i] = token
            /\ \A j \in 1..(i - 1) : text[j] # token
    ELSE 0

\* text.split(token): the pieces, split at every occurrence of the token
RECURSIVE Split(_, _)
Split(text, token) ==
    LET i == IndexOf(text, token)
    IN IF i = 0 THEN << text >>
       ELSE << SubSeq(text, 1, i - 1) >> \o Split(SubSeq(text, i + 1, Len(text)), token)

UpperChar(c) ==
    CASE c = "t" -> "T"
      [] c = "c" -> "C"
      [] c = "s" -> "S"
      [] c = "n" -> "N"
      [] OTHER -> c

Upper(s) == [i \in 1..Len(s) |-> UpperChar(s[i])]

RECURSIVE LStrip(_)
LStrip(s) == IF s # << >> /\ Head(s) = " " THEN LStrip(Tail(s)) ELSE s

RECURSIVE RStrip(_)
RStrip(s) ==
    IF s # << >> /\ s[Len(s)] = " " THEN RStrip(SubSeq(s, 1, Len(s) - 1)) ELSE s

Strip(s) == RStrip(LStrip(s))

NoDict == [k \in {} |-> NA]

Get(dict, key, default) == IF key \in DOMAIN dict THEN dict[key] ELSE default

-----------------------------------------------------------------------------
(* The market-data source (yfinance), a black box: its possible answers *)

NS == << ".", "N", "S" >>

InfoFull ==
    [k \in {"longName", "currentPrice", "marketCap", "forwardPE", "trailingPE",
            "debtToEquity", "returnOnEquity", "profitMargins", "revenueGrowth",
            "priceToBook", "dividendYield", "beta", "sector", "industry",
            "fiftyTwoWeekHigh", "fiftyTwoWeekLow", "volume", "averageVolume"}
        |-> IF k = "longName" THEN << "Tata Consultancy Services Limited" >>
            ELSE << "<" \o k \o ">" >>]

InfoSparse ==
    [k \in {"currentPrice", "trailingPE"} |-> << "<" \o k \o ">" >>]

Infos == {InfoFull, InfoSparse}

Patterns == {"flat", "alternate"}

Close(pattern, i) ==
    CASE pattern = "flat" -> 2
      [] pattern = "alternate" -> i % 2

Hist(n, pattern) == [i \in 1..n |-> Close(pattern, i)]

Replies ==
    { [kind |-> k, info |-> InfoSparse, n |-> 0, pattern |-> "flat"] :
          k \in {"info_raises", "history_raises"} }
    \cup
    { [kind |-> "ok", info |-> i, n |-> n, pattern |-> p] :
          i \in Infos, n \in 0..MaxHistLen, p \in Patterns }

NoReply == [kind |-> "none", info |-> InfoSparse, n |-> 0, pattern |-> "flat"]

ErrorText(r) ==
    IF r.kind = "info_raises" THEN << "HTTP Error 404" >> ELSE << "No data found" >>

-----------------------------------------------------------------------------
(* try_fetch_stock *)

Month1 == 30
Month3 == 90
Year1 == 252

\* hist_data['Close'][-k]: the k-th close from the end (defined for k <= Len(h);
\* Python raises IndexError past the start of the series)
CloseFromEnd(h, k) == h[Len(h) + 1 - k]

\* f"{x:.2f}" of a value given in hundredths
Fmt2(hundredths) ==
    LET a == IF hundredths < 0 THEN -hundredths ELSE hundredths
        cents == a % 100
    IN (IF hundredths < 0 THEN "-" ELSE "")
       \o ToString(a \div 100) \o "."
       \o (IF cents < 10 THEN "0" ELSE "") \o ToString(cents)

\* f"{((current_price - base) / base * 100):.2f}" on float64 values: a zero
\* divisor gives inf or nan, it does not raise.  The closes of the model divide
\* exactly to hundredths of a percent.
PercentReturn(current_price, base) ==
    IF base = 0
    THEN (IF current_price > 0 THEN "inf"
          ELSE IF current_price < 0 THEN "-inf" ELSE "nan")
    ELSE Fmt2(((current_price - base) * 10000) \div base)

HasEnoughStrict(h, k) == Len(h) > k

\* the guards `len(hist_data) >= 30`, `>= 90`, `>= 252`
HasEnough(h, k) == Len(h) >= k

\* one line of 63-65 raises when its guard passes and the index is out of range
ReturnRaises(h, k) == HasEnough(h, k) /\ k > Len(h)

\* one line of 63-65, when it does not raise
ReturnField(h, current_price, k) ==
    IF HasEnough(h, k)
    THEN << PercentReturn(current_price, CloseFromEnd(h, k)) >>
    ELSE NA

ReturnKeys == {"1_month_return", "3_month_return", "1_year_return"}

\* lines 60-69: nothing is added for an empty history; one raising line makes
\* all three fields N/A
PerformanceFields(h, current_price) ==
    IF h = << >> THEN NoDict
    ELSE IF \E k \in {Month1, Month3, Year1} : ReturnRaises(h, k)
    THEN [k \in ReturnKeys |-> NA]
    ELSE [k \in ReturnKeys |->
             ReturnField(h, current_price,
                         IF k = "1_month_return" THEN Month1
                         ELSE IF k = "3_month_return" THEN Month3 ELSE Year1)]

TaggedSymbolOriginal(ticker, original) == original

\* line 40: the dict is tagged with the symbol of this lookup
TaggedSymbol(ticker, original) == ticker

\* lines 37-58 and 60-69: the dict built from one answer of the source
StockDataDict(ticker, original, info, h) ==
    LET current_price ==
            IF h # << >> THEN << ToString(CloseFromEnd(h, 1)) \o ".0" >>
            ELSE Get(info, "currentPrice", NA)
    IN  PerformanceFields(h, IF h # << >> THEN CloseFromEnd(h, 1) ELSE 0) @@
        [k \in {"symbol", "company_name", "current_price", "market_cap",
                "pe_ratio", "debt_to_equity", "roe", "profit_margin",
                "revenue_growth", "price_to_book", "dividend_yield", "beta",
                "sector", "industry", "52_week_high", "52_week_low", "volume",
                "avg_volume"} |->
            CASE k = "symbol" -> TaggedSymbol(ticker, original)
              [] k = "company_name" -> Get(info, "longName", NA)
              [] k = "current_price" -> current_price
              [] k = "market_cap" -> Get(info, "marketCap", NA)
              [] k = "pe_ratio" -> Get(info, "forwardPE", Get(info, "trailingPE", NA))
              [] k = "debt_to_equity" -> Get(info, "debtToEquity", NA)
              [] k = "roe" -> Get(info, "returnOnEquity", NA)
              [] k = "profit_margin" -> Get(info, "profitMargins", NA)
              [] k = "revenue_growth" -> Get(info, "revenueGrowth", NA)
              [] k = "price_to_book" -> Get(info, "priceToBook", NA)
              [] k = "dividend_yield" -> Get(info, "dividendYield", NA)
              [] k = "beta" -> Get(info, "beta", NA)
              [] k = "sector" -> Get(info, "sector", NA)
              [] k = "industry" -> Get(info, "industry", NA)
              [] k = "52_week_high" -> Get(info, "fiftyTwoWeekHigh", NA)
              [] k = "52_week_low" -> Get(info, "fiftyTwoWeekLow", NA)
              [] k = "volume" -> Get(info, "volume", NA)
              [] k = "avg_volume" -> Get(info, "averageVolume", NA)]

\* lines 24-74: << result, success >> of one lookup
try_fetch_stock(ticker, original, r) ==
    IF r.kind = "ok"
    THEN << [dict |-> StockDataDict(ticker, original, r.info, Hist(r.n, r.pattern)),
             text |-> << >>], TRUE >>
    ELSE << [dict |-> NoDict,
             text |-> << "Error fetching " >> \o ticker \o << ": " >> \o ErrorText(r)],
            FALSE >>

-----------------------------------------------------------------------------
(* get_stock_data *)

Lit(text) == << "lit", text >>
Key(name) == << "key", << name >> >>

\* lines 87-117: the f-string, as literals and the dict keys it reads
Template ==
    << Lit(<< "\n", "STOCK DATA FOR " >>), Key("symbol"),
       Lit(<< "\n", "===============================", "\n", "Company: " >>),
       Key("company_name"),
       Lit(<< "\n", "Sector: " >>), Key("sector"),
       Lit(<< " | Industry: " >>), Key("industry"),
       Lit(<< "\n", "\n", "CURRENT METRICS:", "\n", "- Current Price: $" >>),
       Key("current_price"),
       Lit(<< "\n", "- Market Cap: " >>), Key("market_cap"),
       Lit(<< "\n", "- P/E Ratio: " >>), Key("pe_ratio"),
       Lit(<< "\n", "- Price to Book: " >>), Key("price_to_book"),
       Lit(<< "\n", "- Beta: " >>), Key("beta"),
       Lit(<< "\n", "\n", "FINANCIAL HEALTH:", "\n", "- Debt to Equity: " >>),
       Key("debt_to_equity"),
       Lit(<< "\n", "- Return on Equity: " >>), Key("roe"),
       Lit(<< "\n", "- Profit Margin: " >>), Key("profit_margin"),
       Lit(<< "\n", "- Revenue Growth: " >>), Key("revenue_growth"),
       Lit(<< "\n", "- Dividend Yield: " >>), Key("dividend_yield"),
       Lit(<< "\n", "\n", "PERFORMANCE:", "\n", "- 52 Week High: $" >>),
       Key("52_week_high"),
       Lit(<< "\n", "- 52 Week Low: $" >>), Key("52_week_low"),
       Lit(<< "\n", "- 1 Month Return: " >>), Key("1_month_return"),
       Lit(<< "%", "\n", "- 3 Month Return: " >>), Key("3_month_return"),
       Lit(<< "%", "\n", "- 1 Year Return: " >>), Key("1_year_return"),
       Lit(<< "%", "\n", "\n", "TRADING DATA:", "\n", "- Volume: " >>),
       Key("volume"),
       Lit(<< "\n", "- Average Volume: " >>), Key("avg_volume"),
       Lit(<< "\n", "        " >>) >>

\* the keys the f-string reads that the dict lacks, by position in the template
MissingAt(data) ==
    { i \in 1..Len(Template) :
          Template[i][1] = "key" /\ Template[i][2][1] \notin DOMAIN data }

\* str(KeyError(key)) of the first missing key
KeyErrorText(data) ==
    LET i == CHOOSE i \in MissingAt(data) : \A j \in MissingAt(data) : i <= j
    IN << "'" \o Template[i][2][1] \o "'" >>

formatted_output(data) ==
    Flatten([i \in 1..Len(Template) |->
                IF Template[i][1] = "lit" THEN Template[i][2]
                ELSE data[Template[i][2][1]]])

ShouldRetryAlways(ok, symbol) == ~ok

\* line 80
ShouldRetry(ok, symbol) == ~ok /\ ~EndsWith(symbol, NS)

\* lines 84-120: [outcome, text]: the block, the error text, or a raised KeyError
get_stock_data_return(res, ok) ==
    IF ok
    THEN (IF MissingAt(res.dict) # {}
          THEN [outcome |-> "raise", text |-> KeyErrorText(res.dict)]
          ELSE [outcome |-> "block", text |-> formatted_output(res.dict)])
    ELSE [outcome |-> "error", text |-> res.text]

\* lines 261-264
error_msg(e) == << "Error during analysis: " >> \o e

-----------------------------------------------------------------------------
(* The web search source (duckduckgo_search), a black box: its possible answers *)

ResultTitle(q, i) == << "title " \o ToString(q) \o "." \o ToString(i) >>

GoodHref(q, i) ==
    << "https:", "/", "/", "site" \o ToString(q) \o ".example", "/",
       "story" \o ToString(i) >>

\* a URL with no host segment
BadHref == << "example.com" >>

\* "ragged": the first result has no href, the second a URL with no host segment
HrefPatterns == {"good", "ragged"}

Href(q, i, pattern) ==
    IF pattern = "ragged" /\ i = 1 THEN << >>
    ELSE IF pattern = "ragged" /\ i = 2 THEN BadHref
    ELSE GoodHref(q, i)

\* the results the source has for query number q
Offered(q, avail, pattern) ==
    [i \in 1..avail |->
        [title |-> ResultTitle(q, i),
         body |-> << "b", "o", "d", "y" >>,
         href |-> Href(q, i, pattern)]]

NoSearchReply == [kind |-> "none", avail |-> 0, pattern |-> "good"]

SearchReplies ==
    { [kind |-> "raises", avail |-> 0, pattern |-> "good"] }
    \cup
    { [kind |-> "ok", avail |-> a, pattern |-> p] :
          a \in 0..MaxAvail, p \in HrefPatterns }

-----------------------------------------------------------------------------
(* search_stock_news *)

MaxResults == 3
DisplayLimit == 8
BodyLimit == 200

\* lines 127-131
queries(name, symbol) ==
    << name \o << " stock news" >>,
       symbol \o << " earnings news" >>,
       name \o << " financial news" >> >>

\* line 138: ddgs.text(query, max_results=...) answers with at most that many
ddgs_text(q, r, max_results) == Take(Offered(q, r.avail, r.pattern), max_results)

\* line 145 raises IndexError when the URL has no third '/'-separated piece
SourceRaises(res) == res.href # << >> /\ Len(Split(res.href, "/")) < 3

\* lines 141-146
news_item(res) ==
    [title |-> res.title,
     body |-> res.body,
     url |-> res.href,
     source |-> IF res.href # << >> THEN Split(res.href, "/")[3]
                ELSE << "Unknown" >>]

\* a query with a faulty result contributes nothing
RECURSIVE AppendedAllOrNothing(_)
AppendedAllOrNothing(results) ==
    IF \E i \in 1..Len(results) : SourceRaises(results[i]) THEN << >>
    ELSE IF results = << >> THEN << >>
    ELSE << news_item(Head(results)) >> \o AppendedAllOrNothing(Tail(results))

\* lines 140-147: the items appended before the first result that raises
RECURSIVE Appended(_)
Appended(results) ==
    IF results = << >> \/ SourceRaises(Head(results)) THEN << >>
    ELSE << news_item(Head(results)) >> \o Appended(Tail(results))

ItemRaises(results) == \E i \in 1..Len(results) : SourceRaises(results[i])

RenderedAll(news) == news

\* line 160: all_news[:8]
Rendered(news) == Take(news, DisplayLimit)

\* lines 161-167
RenderItem(i, news) ==
    << "\n", ToString(i), ". " >> \o news.title
    \o << "\n", "   Source: " >> \o news.source
    \o << "\n", "   Summary: " >> \o Take(news.body, BodyLimit)
    \o << "...", "\n", "   URL: " >> \o news.url
    \o << "\n", "   ", "\n" >>

\* the block is rendered whether or not anything was aggregated
formatted_news_unguarded(news, name, symbol) ==
    << "\n", "RECENT NEWS FOR " >> \o name \o << " (" >> \o symbol
    \o << ")", "\n", "==========================================", "\n" >>
    \o Flatten([i \in 1..Len(Rendered(news)) |-> RenderItem(i, Rendered(news)[i])])

\* lines 155-170
formatted_news(news, name, symbol) ==
    IF news # << >>
    THEN << "\n", "RECENT NEWS FOR " >> \o name \o << " (" >> \o symbol
         \o << ")", "\n", "==========================================", "\n" >>
         \o Flatten([i \in 1..Len(Rendered(news)) |-> RenderItem(i, Rendered(news)[i])])
    ELSE << "No recent news found for " >> \o name \o << " (" >> \o symbol \o << ")" >>

-----------------------------------------------------------------------------
(* analyze_stock_simple *)

\* lines 203-208
ExtractCompanyName(data, symbol) ==
    IF Contains(data, {"Company:", "Company: "})
    THEN (IF Len(Split(data, "Company: ")) < 2 THEN symbol
          ELSE Split(Split(data, "Company: ")[2], "\n")[1])
    ELSE symbol

\* lines 213-249
PromptFor(symbol, data, news) ==
    << "\n", "You are a senior financial analyst. Please provide a comprehensive stock analysis for " >>
    \o symbol
    \o << " based on the following data:", "\n", "\n", "STOCK DATA:", "\n" >>
    \o data
    \o << "\n", "\n", "NEWS DATA:", "\n" >>
    \o news
    \o << "\n", "\n", "Please provide:", "\n", "\n",
          "1. **EXECUTIVE SUMMARY**", "\n", "\n",
          "2. **FINANCIAL HEALTH ASSESSMENT**", "\n", "\n",
          "3. **VALUATION ANALYSIS**", "\n", "\n",
          "4. **RECENT NEWS IMPACT**", "\n", "\n",
          "5. **INVESTMENT RECOMMENDATION**", "\n", "\n",
          "6. **BOTTOM LINE**", "\n", "\n",
          "Make your analysis clear, actionable, and accessible.", "\n" >>

\* the hosted model, a black box: it raises, or answers with an object that has
\* a content attribute, or with one that has none (str(response) is used)
ModelReplies ==
    { [kind |-> "raises", content |-> << >>, str |-> << "429 quota exceeded" >>],
      [kind |-> "content", content |-> << "**BUY**" >>,
       str |-> << "content='**BUY**'" >>],
      [kind |-> "plain", content |-> << >>, str |-> << "**HOLD**" >>] }

NoModelReply == [kind |-> "none", content |-> << >>, str |-> << >>]

ResponseStr(r) == r.str

\* line 254
ResponseText(r) == IF r.kind = "content" THEN r.content ELSE r.str

-----------------------------------------------------------------------------
(* app.py: the inputs of one script run *)

RawSymbols ==
    { << "t", "c", "s" >>,
      << " ", "T", "C", "S", ".", "N", "S", " " >>,
      << " " >> }

ApiKeys == { << >>, << "k", "e", "y" >> }

Footer == << "markdown", << "*Powered by CrewAI and Google Gemini*" >> >>

Instructions == << "markdown", << "## How to Use" >> >>

\* the key stays in the environment
KeepApiKey(environ) == environ

\* lines 70-73: the finally clause
ClearApiKey(environ) == IF environ # << >> THEN << >> ELSE environ

\* lines 63-69: the error panel
ErrorPanel(e) ==
    << << "error", << "Error during analysis: " >> \o e >>,
       << "info", << "Please check your API key, dependencies, and internet connection." >> >>,
       << "code", e >> >>

\* lines 56-61: the report
ReportPanel(text) ==
    << << "success", << "Analysis Complete!" >> >>,
       << "markdown", text >> >>

-----------------------------------------------------------------------------
(* financial_companion_crew.py: the sequential pipeline (Flow A) *)

\* lines 126-257: the five tasks, by the agent each is given to, in list order
Tasks ==
    << "data_processor", "risk_guardian", "health_advisor",
       "product_matchmaker", "report_synthesizer" >>

\* the arguments of process_customer_data
TransactionFiles ==
    { << "customer_transactions.csv" >>, << "transactions.json" >>, << "missing.csv" >> }

Profiles == { << "None" >>, << "CUST_001" >> }

\* datetime.now().isoformat()
Clock == { << "2024-01-15T10:30:00" >>, << "2024-01-15T10:30:01" >> }

\* line 283: customer_profile or {}
ProfileOrEmpty(profile) == IF profile = << "None" >> THEN << "{}" >> ELSE profile

\* lines 281-287
Inputs(transaction_file, customer_profile, now) ==
    [transaction_file |-> transaction_file,
     customer_profile |-> ProfileOrEmpty(customer_profile),
     analysis_date |-> now,
     lookback_period_months |-> << "12" >>,
     fraud_analysis_days |-> << "30" >>]

\* the orchestration runner (crewai), a black box: what running one task can
\* do: produce a text, or raise
TaskReplies ==
    { [kind |-> "raises", text |-> << "rate limit exceeded" >>],
      [kind |-> "output", text |-> << "findings" >>],
      [kind |-> "output", text |-> << "no findings" >>] }

TaskOutput(k, r) == << Tasks[k] \o ": " >> \o r.text

TaskError(k, r) == << Tasks[k] \o ": " >> \o r.text

NoKickoff == [state |-> "none", raised |-> FALSE, value |-> << >>, message |-> << >>]

\* lines 259-268 and 299: crew.kickoff under Process.sequential, once the task
\* numbered k has run with the answer r after the outputs `done`: it raises
\* what the task raised, returns the last task's output, or is still running
Kickoff(done, k, r) ==
    IF r.kind = "raises"
    THEN [state |-> "raised", raised |-> TRUE, value |-> << >>,
          message |-> TaskError(k, r)]
    ELSE IF k = Len(Tasks)
    THEN [state |-> "returned", raised |-> FALSE, value |-> TaskOutput(k, r),
          message |-> << >>]
    ELSE [state |-> "running", raised |-> FALSE, value |-> << >>, message |-> << >>]

\* lines 302-308
SuccessResult(crew_result, inputs, transaction_file) ==
    ("status" :> << "success" >>)
    @@ ("analysis_date" :> inputs.analysis_date)
    @@ ("transaction_file" :> transaction_file)
    @@ ("results" :> crew_result)
    @@ ("crew_execution" :> << "completed" >>)

\* lines 312-316
ErrorResult(e, inputs) ==
    ("status" :> << "error" >>)
    @@ ("error_message" :> e)
    @@ ("analysis_date" :> inputs.analysis_date)

\* the error result carries what there is as results
process_customer_data_partial(kick, inputs, transaction_file) ==
    [outcome |-> "return",
     value |-> IF kick.raised
               THEN ErrorResult(kick.message, inputs) @@ ("results" :> kick.message)
               ELSE SuccessResult(kick.value, inputs, transaction_file)]

\* lines 297-316: the try block around the run; `except Exception` leaves
\* nothing the run raises to the caller
process_customer_data_return(kick, inputs, transaction_file) ==
    [outcome |-> "return",
     value |-> IF kick.raised
               THEN ErrorResult(kick.message, inputs)
               ELSE SuccessResult(kick.value, inputs, transaction_file)]

NoCrewCall ==
    [pc |-> "idle", transaction_file |-> << >>, customer_profile |-> << "None" >>,
     inputs |-> Inputs(<< >>, << "None" >>, << >>), outputs |-> << >>,
     kick |-> NoKickoff, outcome |-> "none", ret |-> NoDict]

-----------------------------------------------------------------------------
(* The state machine *)

Init ==
    /\ pc = "idle"
    /\ env \in { << >>, << << "p", "r", "e", "s", "e", "t" >> >> }
    /\ api_key = << >>
    /\ stock_symbol = << "N", "V", "D", "A" >>
    /\ ui = << Instructions, Footer >>
    /\ calls = << >>
    /\ ticker_symbol = << >>
    /\ reply = NoReply
    /\ result = [dict |-> NoDict, text |-> << >>]
    /\ success = FALSE
    /\ gsd_outcome = "none"
    /\ stock_data = << >>
    /\ company_name = << >>
    /\ query_index = 1
    /\ outcomes = << >>
    /\ search_reply = NoSearchReply
    /\ all_news = << >>
    /\ news_data = << >>
    /\ analysis_prompt = << >>
    /\ llm = NoModelReply
    /\ analysis_result = << >>
    /\ crew = NoCrewCall

\* the locals of analyze_stock_simple and of the functions it calls, when no
\* call of it is in progress
FreshRun ==
    /\ calls' = << >>
    /\ ticker_symbol' = << >>
    /\ reply' = NoReply
    /\ result' = [dict |-> NoDict, text |-> << >>]
    /\ success' = FALSE
    /\ gsd_outcome' = "none"
    /\ stock_data' = << >>
    /\ company_name' = << >>
    /\ query_index' = 1
    /\ outcomes' = << >>
    /\ search_reply' = NoSearchReply
    /\ all_news' = << >>
    /\ news_data' = << >>
    /\ analysis_prompt' = << >>
    /\ llm' = NoModelReply


\* app.py lines 18-50 and 75-116: one run of the script up to the import; a run
\* that starts no analysis ends here
AppRun ==
    /\ pc = "idle"
    /\ UNCHANGED crew
    /\ \E button \in BOOLEAN, raw \in RawSymbols, key \in ApiKeys :
          LET symbol == Strip(Upper(raw))
              tail == (IF ~button THEN << Instructions >> ELSE << >>) \o << Footer >>
          IN /\ api_key' = key
             /\ stock_symbol' = symbol
             /\ FreshRun
             /\ analysis_result' = << >>
             /\ IF button /\ symbol # << >>
                THEN IF key = << >>
                     THEN /\ ui' = << << "error", << "Please enter your Google API Key in the sidebar to proceed." >> >>,
                                      << "info", << "You can get a free API key from Google AI Studio" >> >> >>
                                   \o tail
                          /\ UNCHANGED env
                          /\ pc' = "idle"
                     ELSE /\ ui' = << << "header", << "Analysis for " >> \o symbol >> >>
                          /\ env' = << key >>
                          /\ pc' = "import"
                ELSE /\ ui' = (IF button
                               THEN << << "warning", << "Please enter a stock symbol to analyze." >> >> >>
                               ELSE << >>) \o tail
                     /\ UNCHANGED env
                     /\ pc' = "idle"

\* app.py line 53: the import, which may fail (a missing dependency); then lines
\* 63-73 and 114-116
ImportAnalysis ==
    /\ pc = "import"
    /\ UNCHANGED crew
    /\ \E ok \in BOOLEAN :
          IF ok
          THEN /\ pc' = "llm_init"
               /\ UNCHANGED << env, ui >>
          ELSE /\ ui' = ui \o ErrorPanel(<< "No module named 'yfinance'" >>) \o << Footer >>
               /\ env' = ClearApiKey(env)
               /\ pc' = "idle"
    /\ UNCHANGED << api_key, stock_symbol, calls, ticker_symbol, reply, result,
                    success, gsd_outcome, stock_data, company_name, query_index,
                    outcomes, search_reply, all_news, news_data, analysis_prompt, llm,
                    analysis_result >>

\* lines 188-194 (and 261-264 when the constructor raises)
LlmInit ==
    /\ pc = "llm_init"
    /\ UNCHANGED crew
    /\ \E ok \in BOOLEAN :
          /\ calls' = Append(calls, << "ChatGoogleGenerativeAI", Flatten(env),
                                      IF ok THEN << "returned" >> ELSE << "raised" >> >>)
          /\ IF ok
             THEN /\ pc' = "fetch"
                  /\ ticker_symbol' = stock_symbol
                  /\ UNCHANGED analysis_result
             ELSE /\ pc' = "returned"
                  /\ analysis_result' = error_msg(<< "API key not valid" >>)
                  /\ UNCHANGED ticker_symbol
    /\ UNCHANGED << env, api_key, stock_symbol, ui, reply, result, success,
                    gsd_outcome, stock_data, company_name, query_index, outcomes,
                    search_reply, all_news, news_data, analysis_prompt, llm >>

\* one call of try_fetch_stock (lines 24-74), and the test that follows it
Lookup(next_pc) ==
    \E r \in Replies :
       LET got == try_fetch_stock(ticker_symbol, stock_symbol, r)
       IN /\ reply' = r
          /\ result' = got[1]
          /\ success' = got[2]
          /\ calls' = Append(calls, << "try_fetch_stock", ticker_symbol,
                                      IF got[2] THEN << "success" >> ELSE << "failure" >> >>)
          /\ IF next_pc = "retry" /\ ShouldRetry(got[2], stock_symbol)
             THEN /\ pc' = "retry"
                  /\ ticker_symbol' = stock_symbol \o NS
             ELSE /\ pc' = "format"
                  /\ UNCHANGED ticker_symbol

\* lines 77-80
TryFetchPrimary ==
    /\ pc = "fetch"
    /\ UNCHANGED crew
    /\ Lookup("retry")
    /\ UNCHANGED << env, api_key, stock_symbol, ui, gsd_outcome, stock_data,
                    company_name, query_index, outcomes, search_reply, all_news,
                    news_data,
                    analysis_prompt, llm, analysis_result >>

\* lines 81-82
TryFetchSuffixed ==
    /\ pc = "retry"
    /\ UNCHANGED crew
    /\ Lookup("format")
    /\ UNCHANGED << env, api_key, stock_symbol, ui, gsd_outcome, stock_data,
                    company_name, query_index, outcomes, search_reply, all_news,
                    news_data,
                    analysis_prompt, llm, analysis_result >>

\* the news search is left out
AfterStockDataSkipNews(outcome) ==
    IF outcome = "raise" THEN "returned" ELSE "prompt"

\* an error description ends the analysis
AfterStockDataAbortOnError(outcome) ==
    IF outcome = "block" THEN "news" ELSE "returned"

\* lines 198-210 and 261: what follows the call of get_stock_data; only an
\* exception leads to the except clause, an error description is a value like
\* any other
AfterStockData(outcome) == IF outcome = "raise" THEN "returned" ELSE "news"

\* lines 84-120 and line 198; a KeyError raised by the f-string leaves
\* get_stock_data and is caught at lines 261-264
GetStockDataReturn ==
    /\ pc = "format"
    /\ UNCHANGED crew
    /\ LET ret == get_stock_data_return(result, success)
       IN /\ gsd_outcome' = ret.outcome
          /\ IF ret.outcome = "raise"
             THEN /\ analysis_result' = error_msg(ret.text)
                  /\ UNCHANGED stock_data
             ELSE /\ stock_data' = ret.text
                  /\ UNCHANGED analysis_result
          /\ pc' = AfterStockData(ret.outcome)
    /\ UNCHANGED << env, api_key, stock_symbol, ui, calls, ticker_symbol, reply,
                    result, success, company_name, query_index, outcomes,
                    search_reply, all_news, news_data, analysis_prompt, llm >>

\* lines 203-210 and 126-135: the company name, then search_stock_news up to
\* the DDGS() context, whose construction may raise (lines 172-173)
BeginNewsSearch ==
    /\ pc = "news"
    /\ UNCHANGED crew
    /\ company_name' = ExtractCompanyName(stock_data, stock_symbol)
    /\ \E ok \in BOOLEAN :
          IF ok
          THEN /\ pc' = "query"
               /\ UNCHANGED news_data
          ELSE /\ pc' = "prompt"
               /\ news_data' = << "Error searching for news: ", "DDGS unavailable" >>
    /\ reply' = NoReply
    /\ result' = [dict |-> NoDict, text |-> << >>]
    /\ UNCHANGED << env, api_key, stock_symbol, ui, calls, ticker_symbol, success,
                    gsd_outcome, stock_data, query_index, outcomes, search_reply,
                    all_news,
                    analysis_prompt, llm, analysis_result >>

\* the loop stops at the first query that raises
AfterQueryAbort(status, index, n) ==
    IF index = n \/ status # "completed" THEN "render" ELSE "query"

\* lines 136 and 151-153: `continue`; the loop ends after the last query
AfterQuery(status, index, n) == IF index = n THEN "render" ELSE "query"

\* lines 136-153: one iteration of the loop over the queries
IssueQuery ==
    /\ pc = "query"
    /\ UNCHANGED crew
    /\ \E r \in SearchReplies :
          LET query == queries(company_name, stock_symbol)[query_index]
              results == IF r.kind = "raises" THEN << >>
                         ELSE ddgs_text(query_index, r, MaxResults)
              status == IF r.kind = "raises" THEN "query_raised"
                        ELSE IF ItemRaises(results) THEN "result_raised"
                        ELSE "completed"
              issued == Append(calls, << "ddgs.text", query,
                                         IF r.kind = "raises" THEN << "raised" >>
                                         ELSE << "returned" >> >>)
          IN /\ search_reply' = r
             /\ all_news' = all_news \o Appended(results)
             /\ outcomes' = Append(outcomes, [status |-> status, returned |-> Len(results),
                                       appended |-> Len(Appended(results))])
             /\ calls' = IF status = "completed"
                         THEN Append(issued, << "time.sleep", << "1" >>, << "returned" >> >>)
                         ELSE issued
             /\ pc' = AfterQuery(status, query_index,
                                 Len(queries(company_name, stock_symbol)))
    /\ query_index' = query_index + 1
    /\ UNCHANGED << env, api_key, stock_symbol, ui, ticker_symbol, reply, result,
                    success, gsd_outcome, stock_data, company_name, news_data,
                    analysis_prompt, llm, analysis_result >>

\* lines 155-170 and line 210
RenderNews ==
    /\ pc = "render"
    /\ UNCHANGED crew
    /\ news_data' = formatted_news(all_news, company_name, stock_symbol)
    /\ search_reply' = NoSearchReply
    /\ pc' = "prompt"
    /\ UNCHANGED << env, api_key, stock_symbol, ui, calls, ticker_symbol, reply,
                    result, success, gsd_outcome, stock_data, company_name,
                    query_index, outcomes, all_news, analysis_prompt, llm,
                    analysis_result >>

\* lines 213-264: the prompt, the invocation and the return value
InvokeModel ==
    /\ pc = "prompt"
    /\ UNCHANGED crew
    /\ analysis_prompt' = PromptFor(stock_symbol, stock_data, news_data)
    /\ \E r \in ModelReplies :
          /\ llm' = r
          /\ calls' = Append(calls, << "llm.invoke", analysis_prompt',
                                      IF r.kind = "raises" THEN << "raised" >>
                                      ELSE << "returned" >> >>)
          /\ analysis_result' = IF r.kind = "raises" THEN error_msg(r.str)
                                ELSE ResponseText(r)
    /\ pc' = "returned"
    /\ UNCHANGED << env, api_key, stock_symbol, ui, ticker_symbol, reply, result,
                    success, gsd_outcome, stock_data, company_name, query_index,
                    outcomes, search_reply, all_news, news_data >>

\* app.py lines 54-61, 70-73 and 114-116: analyze_stock_simple has returned and
\* its locals are gone
AppDisplay ==
    /\ pc = "returned"
    /\ UNCHANGED crew
    /\ ui' = ui \o ReportPanel(analysis_result) \o << Footer >>
    /\ env' = ClearApiKey(env)
    /\ pc' = "idle"
    /\ FreshRun
    /\ UNCHANGED << api_key, stock_symbol, analysis_result >>

Next ==
    \/ AppRun
    \/ ImportAnalysis
    \/ LlmInit
    \/ TryFetchPrimary
    \/ TryFetchSuffixed
    \/ GetStockDataReturn
    \/ BeginNewsSearch
    \/ IssueQuery
    \/ RenderNews
    \/ InvokeModel
    \/ AppDisplay

Spec == Init /\ [][Next]_vars

\* the variables of the stock analysis, which the pipeline does not touch
analysis_vars ==
    << pc, env, api_key, stock_symbol, ui, calls, ticker_symbol, reply, result,
       success, gsd_outcome, stock_data, company_name, query_index, outcomes,
       search_reply, all_news, news_data, analysis_prompt, llm, analysis_result >>

\* lines 270-296: process_customer_data is called and prepares its inputs
ProcessCustomerData ==
    /\ crew.pc = "idle"
    /\ \E transaction_file \in TransactionFiles, customer_profile \in Profiles,
          now \in Clock :
          crew' = [crew EXCEPT
                      !.pc = "kickoff",
                      !.transaction_file = transaction_file,
                      !.customer_profile = customer_profile,
                      !.inputs = Inputs(transaction_file, customer_profile, now)]
    /\ UNCHANGED analysis_vars

\* line 299: the runner executes the next task of the list; when the task
\* raises, or was the last one, kickoff ends and process_customer_data returns
\* (lines 301-316)
RunTask ==
    /\ crew.pc = "kickoff"
    /\ \E r \in TaskReplies :
          LET k == Len(crew.outputs) + 1
              kick == Kickoff(crew.outputs, k, r)
              ret == process_customer_data_return(kick, crew.inputs,
                                                  crew.transaction_file)
          IN crew' = [crew EXCEPT
                         !.outputs = IF r.kind = "raises" THEN @
                                     ELSE Append(@, TaskOutput(k, r)),
                         !.kick = kick,
                         !.pc = IF kick.state = "running" THEN "kickoff"
                                ELSE "returned",
                         !.outcome = IF kick.state = "running" THEN @
                                     ELSE ret.outcome,
                         !.ret = IF kick.state = "running" THEN @ ELSE ret.value]
    /\ UNCHANGED analysis_vars

NextA ==
    \/ ProcessCustomerData
    \/ RunTask

SpecA == Init /\ [][NextA]_vars

-----------------------------------------------------------------------------
(* Observations of a run, used by the properties below *)

Lookups == SelectSeq(calls, LAMBDA c : c[1] = "try_fetch_stock")

Searches == SelectSeq(calls, LAMBDA c : c[1] = "ddgs.text")

Invocations == SelectSeq(calls, LAMBDA c : c[1] = "llm.invoke")

\* the text between the first occurrence of `label` and the end of its line
BlockField(text, label) == Split(Split(text, label)[2], "\n")[1]

BlockSymbol(text) == BlockField(text, "STOCK DATA FOR ")

Unavailable == << "N/A", "%" >>

Return1M == BlockField(stock_data, "- 1 Month Return: ")
Return3M == BlockField(stock_data, "- 3 Month Return: ")
Return1Y == BlockField(stock_data, "- 1 Year Return: ")

CountToken(text, token) == Cardinality({ i \in 1..Len(text) : text[i] = token })

\* get_stock_data has just left and the answer of its last lookup is still known
JustLeftGetStockData == pc \in {"news", "returned"} /\ reply.kind = "ok"

-----------------------------------------------------------------------------
(* C1: get_stock_data makes at most two lookups.  The first is on the ticker   *)
(* passed in; a second one is made exactly when the first failed and the       *)
(* ticker does not end with ".NS", and it is on the ticker with ".NS"          *)
(* appended; nothing is looked up after that.                                  *)
C1_SingleSuffixRetry ==
    LET L == Lookups
    IN /\ Len(L) <= 2
       /\ Len(L) >= 1 => L[1][2] = stock_symbol
       /\ Len(L) = 2 =>
             /\ L[1][3] = << "failure" >>
             /\ ~EndsWith(stock_symbol, << ".", "N", "S" >>)
             /\ L[2][2] = stock_symbol \o << ".", "N", "S" >>
       /\ gsd_outcome # "none" =>
             /\ Len(L) >= 1
             /\ (L[1][3] = << "failure" >> /\ ~EndsWith(stock_symbol, << ".", "N", "S" >>))
                   => Len(L) = 2

C1_Witness ==
    /\ gsd_outcome # "none"
    /\ stock_symbol = << "T", "C", "S" >>
    /\ Len(Lookups) = 2
    /\ Lookups[1][3] = << "failure" >>
    /\ Lookups[2][2] = << "T", "C", "S", ".", "N", "S" >>

(* C2: whatever the market-data source does, get_stock_data leaves with the    *)
(* formatted block or with one error text, never with an exception.            *)
C2_BlockOrErrorNeverRaises ==
    /\ gsd_outcome # "raise"
    /\ gsd_outcome = "block" => Contains(stock_data, {"STOCK DATA FOR "})
    /\ gsd_outcome = "error" => Head(stock_data) = "Error fetching "

(* C3: with an empty history, or a zero close as the divisor of a return,      *)
(* get_stock_data does not raise and the return concerned (all three for an    *)
(* empty history) reads N/A in the block.                                      *)
C3_DegradesToUnavailable ==
    JustLeftGetStockData =>
        LET n == reply.n
            ZeroBase(k) == n >= k /\ Close(reply.pattern, n + 1 - k) = 0
        IN /\ (n = 0 \/ ZeroBase(30) \/ ZeroBase(90) \/ ZeroBase(252))
                 => gsd_outcome = "block"
           /\ (gsd_outcome = "block" /\ n = 0) =>
                 /\ Return1M = Unavailable
                 /\ Return3M = Unavailable
                 /\ Return1Y = Unavailable
           /\ (gsd_outcome = "block" /\ ZeroBase(30)) => Return1M = Unavailable
           /\ (gsd_outcome = "block" /\ ZeroBase(90)) => Return3M = Unavailable
           /\ (gsd_outcome = "block" /\ ZeroBase(252)) => Return1Y = Unavailable

(* C4: for a successful lookup with a non-empty history of n closes, the block *)
(* shows a 1-month, 3-month and 1-year return exactly when n >= 30, n >= 90    *)
(* and n >= 252 respectively, and N/A otherwise.                               *)
C4_ReturnThresholds ==
    (JustLeftGetStockData /\ reply.n > 0) =>
        /\ gsd_outcome = "block"
        /\ (Return1M # Unavailable) <=> (reply.n >= 30)
        /\ (Return3M # Unavailable) <=> (reply.n >= 90)
        /\ (Return1Y # Unavailable) <=> (reply.n >= 252)

C4_Witness ==
    /\ JustLeftGetStockData
    /\ reply.n = 45
    /\ reply.pattern = "flat"
    /\ Return1M = << "0.00", "%" >>
    /\ Return3M = Unavailable
    /\ Return1Y = Unavailable

(* C5: the block get_stock_data returns is headed with the symbol of the first *)
(* lookup that succeeded: the ticker passed in when the primary lookup         *)
(* succeeded, the ".NS"-suffixed ticker otherwise; never a symbol whose lookup *)
(* failed.                                                                     *)
C5_TaggedWithResolvedSymbol ==
    gsd_outcome = "block" =>
        LET L == Lookups
        IN /\ \E i \in 1..Len(L) :
                 /\ L[i][3] = << "success" >>
                 /\ \A j \in 1..(i - 1) : L[j][3] = << "failure" >>
                 /\ BlockSymbol(stock_data) = L[i][2]
           /\ BlockSymbol(stock_data) =
                 IF L[1][3] = << "success" >> THEN stock_symbol
                 ELSE stock_symbol \o << ".", "N", "S" >>

C5_Witness ==
    /\ gsd_outcome = "block"
    /\ stock_symbol = << "T", "C", "S" >>
    /\ Lookups[1][3] = << "failure" >>
    /\ BlockSymbol(stock_data) = << "T", "C", "S", ".", "N", "S" >>

PromptSymbol(text) ==
    Split(Split(text, "You are a senior financial analyst. Please provide a comprehensive stock analysis for ")[2],
          " based on the following data:")[1]

(* C6: once get_stock_data has resolved a symbol, the news queries and the     *)
(* analysis prompt name that resolved symbol.                                  *)
C6_ResolvedSymbolUsedDownstream ==
    gsd_outcome = "block" =>
        /\ \A i \in 1..Len(Searches) :
              EndsWith(Searches[i][2], << " earnings news" >>)
                 => Searches[i][2] = BlockSymbol(stock_data) \o << " earnings news" >>
        /\ analysis_prompt # << >>
              => PromptSymbol(analysis_prompt) = BlockSymbol(stock_data)

\* the items of the aggregate that came from query number q
FromQuery(q) ==
    { j \in 1..Len(all_news) :
          \E i \in 1..(MaxAvail + 1) : all_news[j].title = ResultTitle(q, i) }

(* C7: in search_stock_news a query that raises is skipped: all three queries  *)
(* are issued whichever of them raise, and every result of a query that        *)
(* completed is in the aggregate.                                              *)
C7_FailedQuerySkipped ==
    /\ Len(Searches) = Len(outcomes)
    /\ \A k \in 1..Len(Searches) :
          Searches[k][2] = queries(company_name, stock_symbol)[k]
    /\ pc = "query" => Len(outcomes) = query_index - 1 /\ query_index <= 3
    /\ pc = "render" => Len(outcomes) = 3
    /\ \A k \in 1..Len(outcomes) :
          outcomes[k].status = "completed" =>
              \A i \in 1..outcomes[k].returned :
                  \E j \in 1..Len(all_news) : all_news[j].title = ResultTitle(k, i)

C7_Witness ==
    /\ pc = "render"
    /\ outcomes[1].status = "query_raised"
    /\ outcomes[2].status = "completed"
    /\ outcomes[2].returned = 3
    /\ outcomes[3].status = "query_raised"
    /\ Cardinality(FromQuery(2)) = 3

ModelText == IF llm.kind = "content" THEN llm.content ELSE llm.str

(* C9 as stated: every call of analyze_stock_simple invokes the hosted model   *)
(* exactly once, with the assembled prompt, and returns the model's text       *)
(* unchanged or an error description when the invocation fails.                *)
C9_InvokedExactlyOnce ==
    pc = "returned" =>
        /\ Len(Invocations) = 1
        /\ Invocations[1][2] = PromptFor(stock_symbol, stock_data, news_data)
        /\ IF llm.kind = "raises"
           THEN Head(analysis_result) = "Error during analysis: "
           ELSE analysis_result = ModelText

(* C9 as amended: a call of analyze_stock_simple invokes the hosted model at   *)
(* most once, and only with the assembled prompt; when the model answers, the  *)
(* value returned is its text unchanged; when the invocation fails or is never *)
(* reached, the value returned is an error description.                        *)
C9_InvokedAtMostOnce ==
    /\ Len(Invocations) <= 1
    /\ Len(Invocations) = 1 =>
          Invocations[1][2] = PromptFor(stock_symbol, stock_data, news_data)
    /\ pc = "returned" =>
          IF Len(Invocations) = 1 /\ llm.kind # "raises"
          THEN analysis_result = ModelText
          ELSE Head(analysis_result) = "Error during analysis: "

C9_Witness ==
    /\ pc = "returned"
    /\ Len(Invocations) = 1
    /\ llm.kind = "content"
    /\ analysis_result = << "**BUY**" >>

(* C10: when an analysis started from the app fails, the app shows the failure *)
(* message in its error panel together with the troubleshooting hint.          *)
C10_FailureShowsErrorPanel ==
    (pc = "idle" /\ analysis_result # << >>
        /\ Head(analysis_result) = "Error during analysis: ") =>
        /\ \E i \in 1..Len(ui) : ui[i] = << "error", analysis_result >>
        /\ \E i \in 1..Len(ui) :
              ui[i] = << "info", << "Please check your API key, dependencies, and internet connection." >> >>

(* C11: in search_stock_news the pacing delay is taken between every two       *)
(* consecutive queries: no query is issued right after another one without a   *)
(* time.sleep in between.                                                      *)
C11_PauseBetweenQueries ==
    \A i \in 1..(Len(calls) - 1) :
        calls[i][1] = "ddgs.text" => calls[i + 1][1] = "time.sleep"

\* search_stock_news has run its loop over the three queries and returned
SearchLoopReturned == pc \in {"prompt", "returned"} /\ Len(outcomes) = 3

(* C12: when its three queries aggregated nothing, search_stock_news returns   *)
(* the "No recent news found" text, which is not the "Error searching for      *)
(* news" text; when they aggregated at least one result it returns the         *)
(* rendered block.                                                             *)
C12_NoNewsMarker ==
    SearchLoopReturned =>
        /\ all_news = << >> =>
              news_data = << "No recent news found for " >> \o company_name
                          \o << " (" >> \o stock_symbol \o << ")" >>
        /\ all_news # << >> =>
              /\ SubSeq(news_data, 1, 2) = << "\n", "RECENT NEWS FOR " >>
              /\ CountToken(news_data, "   URL: ") >= 1
        /\ Head(news_data) # "Error searching for news: "
        /\ "No recent news found for " # "Error searching for news: "

C12_Witness ==
    /\ SearchLoopReturned
    /\ \A k \in 1..3 : outcomes[k].status = "query_raised"
    /\ Head(news_data) = "No recent news found for "

\* the position in the call log of the calls of one kind
Positions(names) == { i \in 1..Len(calls) : calls[i][1] \in names }

(* C14: analyze_stock_simple fetches the market data, then the news, then      *)
(* assembles the prompt, then invokes the model: no search is issued before    *)
(* get_stock_data has returned, and the model is not invoked before both       *)
(* get_stock_data and search_stock_news have returned; the prompt it receives  *)
(* is assembled from what the two returned.                                    *)
C14_StepOrder ==
    /\ \A i \in Positions({"try_fetch_stock"}) :
          \A j \in Positions({"ddgs.text", "time.sleep", "llm.invoke"}) : i < j
    /\ \A i \in Positions({"ddgs.text", "time.sleep"}) :
          \A j \in Positions({"llm.invoke"}) : i < j
    /\ (pc \in {"query", "render"} \/ Searches # << >>) =>
          /\ gsd_outcome \in {"block", "error"}
          /\ stock_data # << >>
    /\ Invocations # << >> =>
          /\ pc = "returned"
          /\ gsd_outcome \in {"block", "error"}
          /\ stock_data # << >>
          /\ news_data # << >>
          /\ Invocations[1][2] = PromptFor(stock_symbol, stock_data, news_data)

C14_Witness ==
    /\ pc = "returned"
    /\ Len(Lookups) = 2
    /\ Len(Searches) = 3
    /\ Len(Invocations) = 1
    /\ Head(news_data) = "\n"

(* C15: GOOGLE_API_KEY is put into the environment only by a script run that   *)
(* starts an analysis (button pressed, symbol and key not empty), and it then  *)
(* holds the key entered; when the analysis ends, by its return or by an       *)
(* exception, the variable is absent; a run with an empty key or an empty      *)
(* symbol leaves the environment as it was and starts no analysis.             *)
C15_KeyNotKept ==
    [][ /\ (env' # env /\ env' # << >>) =>
              /\ pc = "idle" /\ pc' = "import"
              /\ api_key' # << >> /\ stock_symbol' # << >>
              /\ env' = << api_key' >>
        /\ (pc # "idle" /\ pc' = "idle") => env' = << >>
        /\ (pc = "idle" /\ (api_key' = << >> \/ stock_symbol' = << >>)) =>
              /\ env' = env
              /\ pc' = "idle"
      ]_vars

C15_Witness ==
    /\ pc = "idle"
    /\ api_key # << >>
    /\ analysis_result # << >>
    /\ env = << >>

\* the text between "STOCK DATA:" and "NEWS DATA:" in a prompt
PromptStockData(text) == Split(Split(text, "STOCK DATA:")[2], "NEWS DATA:")[1]

(* C16: when get_stock_data returns an error description the analysis goes on: *)
(* the news search runs with the input ticker as the company name, and the     *)
(* model is invoked once with a prompt whose stock data is the error text; a   *)
(* news search that returns an error or the no-news text does not prevent the  *)
(* invocation either.                                                          *)
C16_ErrorTextDoesNotAbort ==
    /\ gsd_outcome = "error" =>
          /\ Head(stock_data) = "Error fetching "
          /\ pc \in {"query", "render", "prompt", "returned"} =>
                company_name = stock_symbol
          /\ \A k \in 1..Len(Searches) :
                Searches[k][2] = queries(stock_symbol, stock_symbol)[k]
          /\ pc \in {"prompt", "returned"} =>
                \/ Len(Searches) = 3
                \/ Head(news_data) = "Error searching for news: "
          /\ pc = "returned" =>
                /\ Len(Invocations) = 1
                /\ PromptStockData(Invocations[1][2])
                      = << "\n" >> \o stock_data \o << "\n", "\n" >>
    /\ (/\ pc = "returned"
        /\ news_data # << >>
        /\ Head(news_data) \in {"Error searching for news: ",
                                "No recent news found for "}) =>
          /\ Len(Invocations) = 1
          /\ Invocations[1][2] = PromptFor(stock_symbol, stock_data, news_data)

C16_Witness ==
    /\ pc = "returned"
    /\ gsd_outcome = "error"
    /\ Len(Lookups) = 2
    /\ Len(Searches) = 3
    /\ Len(Invocations) = 1
    /\ Head(news_data) = "No recent news found for "

\* the titles the aggregate holds when query k contributed its first
\* outcomes[k].appended results, in the order of the queries
TitlesAppended ==
    Flatten([k \in 1..Len(outcomes) |->
                [i \in 1..outcomes[k].appended |-> ResultTitle(k, i)]])

\* the position of the first result of the last query whose processing raises
FirstFaulty ==
    LET results == Take(Offered(Len(outcomes), search_reply.avail,
                                search_reply.pattern), MaxResults)
        faulty == { i \in 1..Len(results) : SourceRaises(results[i]) }
    IN IF faulty = {} THEN 0
       ELSE CHOOSE i \in faulty : \A j \in faulty : i <= j

(* C17: when the processing of one result of a query raises, the results of    *)
(* that query before the faulty one are in the aggregate, the faulty one and   *)
(* those after it are not, the queries after it are still issued, and what     *)
(* earlier queries contributed stays in the aggregate.                         *)
C17_FaultyResultCutsQuery ==
    /\ [j \in 1..Len(all_news) |-> all_news[j].title] = TitlesAppended
    /\ (pc \in {"query", "render"} /\ outcomes # << >> /\ search_reply.kind = "ok") =>
          LET last == outcomes[Len(outcomes)]
          IN /\ last.status = "result_raised" <=> FirstFaulty > 0
             /\ last.status = "result_raised" => last.appended = FirstFaulty - 1
             /\ last.status = "completed" => last.appended = last.returned
    /\ \A k \in 1..Len(outcomes) :
          outcomes[k].status = "result_raised" =>
              \/ pc = "query" /\ query_index = Len(outcomes) + 1
              \/ Len(outcomes) = 3

C17_Witness ==
    /\ pc = "query"
    /\ Len(outcomes) = 2
    /\ outcomes[1].status = "completed" /\ outcomes[1].returned = 3
    /\ outcomes[2].status = "result_raised" /\ outcomes[2].returned = 3
    /\ search_reply.pattern = "ragged"
    /\ Len(all_news) = 4
    /\ all_news[4].title = ResultTitle(2, 1)
    /\ all_news[4].source = << "Unknown" >>

(* C13: process_customer_data lets no exception of the crew run reach its      *)
(* caller: when a task of the sequential run raises, it returns a result with  *)
(* status "error", the error message and no "results" field; it returns        *)
(* status "success", with the "results" field, only when all five tasks have   *)
(* completed.                                                                  *)
C13_ErrorOrSuccess ==
    crew.pc = "returned" =>
        /\ crew.outcome = "return"
        /\ crew.ret["status"] \in { << "error" >>, << "success" >> }
        /\ crew.kick.raised <=> Len(crew.outputs) < Len(Tasks)
        /\ crew.kick.raised =>
              /\ crew.ret["status"] = << "error" >>
              /\ "error_message" \in DOMAIN crew.ret
              /\ crew.ret["error_message"] = crew.kick.message
              /\ "results" \notin DOMAIN crew.ret
        /\ crew.ret["status"] = << "success" >> =>
              /\ Len(crew.outputs) = Len(Tasks)
              /\ "results" \in DOMAIN crew.ret
              /\ crew.ret["results"] = crew.outputs[Len(Tasks)]

C13_Witness ==
    /\ crew.pc = "returned"
    /\ Len(crew.outputs) = 2
    /\ crew.kick.raised
    /\ crew.ret["status"] = << "error" >>
    /\ crew.ret["error_message"] = << "health_advisor: ", "rate limit exceeded" >>
    /\ DOMAIN crew.ret = {"status", "error_message", "analysis_date"}

====
